---- MODULE Spec2Model ----
(***************************************************************************)
(* State-machine model of the sandbox session lifecycle manager of         *)
(* api/app/clients/tools/structured/E2BCode.js: the process-global         *)
(* registry `sandboxes` (Map sessionId -> {sandbox, lastAccessed,          *)
(* commands}), the dispatch entry point `_call` with one handler per       *)
(* action, and the remote sandbox service the handlers await.              *)
(*                                                                         *)
(* A handler runs atomically from one `await` to the next (single-threaded *)
(* event loop); between two awaits the clock may advance and the remote    *)
(* service may expire a sandbox.                                           *)
(***************************************************************************)
EXTENDS Integers, Sequences, FiniteSets, TLC

(***************************************************************************)
(* Bounds of the model.                                                    *)
(***************************************************************************)
\* remote sandboxes the service creates in one run
MaxRemote == 2
\* clock ticks in one run
MaxTicks == 1
\* background commands started in one run
MaxCmds == 2
\* requests served in one run
MaxCalls == 3
\* requests served in one run of the background-command scenario
MaxCommandCalls == 5
\* requests served in one run of the environment scenario
MaxEnvCalls == 2
\* requests served in one run of the restart scenario
MaxStoreCalls == 3
\* requests served and sweeps of the reaper in one run of the reaper scenario
MaxReaperCalls == 3
MaxSweeps == 3
\* requests served in one run of the scenario of incomplete requests
MaxParameterCalls == 2
\* requests served in one run of the installation scenario
MaxInstallCalls == 3
\* requests served in one run of the scenario with two callers
MaxConcurrentCalls == 3

\* one clock tick, in ms (one minute)
TickMs == 60 * 1000

(***************************************************************************)
(* Values.                                                                 *)
(***************************************************************************)
\* JS `undefined` for an optional string parameter
Undef == "undefined"
Sids == {"s1", "s2"}
\* values of the optional request field `sessionId`
SessionIds == Sids \cup {Undef}
\* request handlers in flight (slots of the event loop)
Procs == {1, 2}
\* the slot used when requests are served one after the other
MainProc == CHOOSE p \in Procs : \A q \in Procs : p <= q

\* A sandbox id is a string, modelled as a tuple of characters so that
\* split('-') is computed.  The empty tuple stands for a falsy id
\* (undefined or ""): `!killSandboxId` does not tell them apart.
NoId == << >>
Letters == <<"a", "b", "c", "d">>
\* the stable id under which the remote service reconnects to its k-th sandbox
RemotePrefix(k) == <<Letters[k]>>
\* the id the service reports for its k-th sandbox: odd ones carry a
\* "-<suffix>", even ones do not
RemoteId(k) == IF k % 2 = 1 THEN RemotePrefix(k) \o <<"-", "x">> ELSE RemotePrefix(k)

\* position of the first '-' in id, or Len(id)+1 when there is none
RECURSIVE FirstDash(_, _)
FirstDash(id, i) ==
    IF i > Len(id) THEN i
    ELSE IF id[i] = "-" THEN i
    ELSE FirstDash(id, i + 1)

Identity(id) == id
\* const [x] = id.split('-'): the characters before the first '-'
SplitFirst(id) == SubSeq(id, 1, FirstDash(id, 1) - 1)

\* ids a caller may pass as `sandboxId`
SandboxIdInputs ==
    {NoId, <<"z", "-", "x">>}
      \cup {RemoteId(k) : k \in 1..MaxRemote}
      \cup {RemotePrefix(k) : k \in 1..MaxRemote}

\* an optional number is a sequence of length at most one
None == << >>
Some(n) == <<n>>
\* minutes a caller may pass as `timeout`
TimeoutInputs == {Some(-1), Some(0), Some(2)}

\* what the probes of a new sandbox print
WhoamiStdout == <<"u", "\n">>
PwdStdout == <<"/", "h", "\n">>
Whitespace == {" ", "\n", "\t"}

RECURSIVE TrimStart(_)
TrimStart(s) ==
    IF s # << >> /\ Head(s) \in Whitespace THEN TrimStart(Tail(s)) ELSE s
RECURSIVE TrimEnd(_)
TrimEnd(s) ==
    IF s # << >> /\ s[Len(s)] \in Whitespace
    THEN TrimEnd(SubSeq(s, 1, Len(s) - 1)) ELSE s
Untrimmed(s) == s
\* String.prototype.trim
Trim(s) == TrimEnd(TrimStart(s))

(***************************************************************************)
(* Requests: the `input` of _call.  Fields a request does not carry are at *)
(* their absent value.                                                     *)
(***************************************************************************)
Actions ==
    {"help", "create", "list_sandboxes", "kill", "set_timeout", "shell",
     "kill_command", "write_file", "read_file", "install",
     "get_file_downloadurl", "get_host", "command_run", "start_server",
     "command_list", "command_kill", "processinfo", "system_install"}
\* the actions of the `default:` branch, which first resolve the session
Operational == Actions \ {"help", "create", "list_sandboxes", "kill", "set_timeout"}

Req(a, s) ==
    [action |-> a, sessionId |-> s, sandboxId |-> NoId, timeout |-> None,
     command_name |-> Undef, cmd |-> Undef, background |-> FALSE,
     commandId |-> Undef, filePath |-> Undef, fileContent |-> Undef,
     port |-> None, logFile |-> Undef, pid |-> None, packages |-> Undef,
     language |-> Undef, envs |-> None]

(***************************************************************************)
(* State.                                                                  *)
(***************************************************************************)
VARIABLES
    \* the registry: Map sessionId -> [sandbox, lastAccessed, commands];
    \* `sandbox` is the index of the remote sandbox the handle is connected to
    sandboxes,
    \* the remote service: its sandboxes in creation order, [alive, deadline]
    remote,
    \* the remote service: background commands in start order, [sandbox, running]
    cmds,
    \* the clock, in ticks
    now,
    \* per handler slot: position, request, locals, remote calls issued so
    \* far and, at "done", what _call hands back
    pc, req, loc, calls, ret,
    \* the number of requests received so far
    ncalls,
    \* per sessionId: "never" (no sandbox was ever created for it), "live"
    \* (a create succeeded and no kill for it began or ended since), "other"
    hist,
    \* the record store (models/Sandbox.js): a set of documents
    \* [sandboxId, sessionId, expiredAt]
    records,
    \* process.env: a function from variable names to values
    penv,
    \* the reaper (cleanupInactiveSandboxes): its position, the time its sweep
    \* began, the session and the sandbox of the entry it is killing
    reaper

vars == <<sandboxes, remote, cmds, now, pc, req, loc, calls, ret, ncalls, hist,
          records, penv, reaper>>
\* what no handler of _call touches
aside == <<records, penv, reaper>>

\* Date.now()
NowMs == now * TickMs

\* Map.prototype.has / set / delete on the registry
Has(m, k) == k \in DOMAIN m
SetIfAbsent(m, k, v) ==
    [x \in DOMAIN m \cup {k} |-> IF x = k /\ ~Has(m, k) THEN v ELSE m[x]]
MapSet(m, k, v) == [x \in DOMAIN m \cup {k} |-> IF x = k THEN v ELSE m[x]]
MapDelete(m, k) == [x \in DOMAIN m \ {k} |-> m[x]]
EmptyMap == [x \in {} |-> 0]

\* what the call just before this one was, when this one was sent as soon as
\* that one returned
NoPrev == [action |-> "none", sessionId |-> Undef, sandboxId |-> NoId,
           timeout |-> None, commandId |-> Undef]
\* locals of a handler: the sandbox it works on, validSandboxId, the
\* registry and the history of its session when it began, the time of the
\* call, the command it started, whether the sandbox it is to kill was
\* already gone when it began, whether the process of its foreground run has
\* exited at the service
NoLoc == [sandbox |-> 0, valid |-> NoId, reg0 |-> EmptyMap, hist0 |-> "never",
          tcall |-> 0, t0 |-> 0, cmd |-> Undef, dead |-> FALSE, exited |-> FALSE,
          exitCode |-> 0,
          prev |-> NoPrev]
NoReq == Req("none", Undef)
NoRet == [kind |-> "none"]
\* the reaper between two sweeps
NoReaper == [pc |-> "idle", now |-> 0, sid |-> Undef, sandbox |-> 0]

\* the module is loaded: nothing registered, no call in flight
Loaded ==
    /\ sandboxes = EmptyMap
    /\ remote = << >>
    /\ cmds = << >>
    /\ now = 0
    /\ pc = [p \in Procs |-> "idle"]
    /\ req = [p \in Procs |-> NoReq]
    /\ loc = [p \in Procs |-> NoLoc]
    /\ calls = [p \in Procs |-> << >>]
    /\ ret = [p \in Procs |-> NoRet]
    /\ ncalls = 0
    /\ hist = [s \in SessionIds |-> "never"]
    /\ records = {}
    /\ reaper = NoReaper

\* a process without hidden variables
Init == Loaded /\ penv = EmptyMap

(***************************************************************************)
(* Responses.  A response is the object handed to JSON.stringify: a        *)
(* function from the keys that are present to their values.                *)
(***************************************************************************)
\* JSON.stringify drops a key whose value is undefined: `sessionId` is the
\* only key of a response that can be
WithSession(s, obj) == IF s = Undef THEN obj ELSE [sessionId |-> s] @@ obj

Returned(obj) == [kind |-> "returned", json |-> obj]
Rethrown(s, msg) == [kind |-> "threw", error |-> msg]
\* the catch of _call's try: every error becomes an envelope
TopLevelCatch(s, msg) ==
    Returned(WithSession(s, [error |-> msg, success |-> FALSE]))

\* a remote call as logged in `calls`: the operation, the sandbox id it
\* addresses and its numeric argument
RemoteCall(op, id, n) == [op |-> op, id |-> id, n |-> n]

(***************************************************************************)
(* Bookkeeping shared by the handlers.                                     *)
(***************************************************************************)
\* the handler in slot p ends with outcome r
Done(p, rq, lc, cl, r) ==
    /\ pc' = [pc EXCEPT ![p] = "done"]
    /\ req' = [req EXCEPT ![p] = rq]
    /\ loc' = [loc EXCEPT ![p] = lc]
    /\ calls' = [calls EXCEPT ![p] = cl]
    /\ ret' = [ret EXCEPT ![p] = r]

\* the handler in slot p suspends at an await
Await(p, rq, lc, cl, at) ==
    /\ pc' = [pc EXCEPT ![p] = at]
    /\ req' = [req EXCEPT ![p] = rq]
    /\ loc' = [loc EXCEPT ![p] = lc]
    /\ calls' = [calls EXCEPT ![p] = cl]
    /\ ret' = [ret EXCEPT ![p] = NoRet]

\* a throw inside _call's try block
Throw(p, rq, lc, cl, msg) == Done(p, rq, lc, cl, TopLevelCatch(rq.sessionId, msg))

Succeeded(r) ==
    r.kind = "returned" /\ "success" \in DOMAIN r.json /\ r.json.success

Summary(p) ==
    IF \/ req[p].action = "kill" /\ loc[p].dead
       \/ req[p].action = "set_timeout" /\ Succeeded(ret[p])
       \/ req[p].action = "kill_command" /\ Succeeded(ret[p])
    THEN [action |-> req[p].action, sessionId |-> req[p].sessionId,
          sandboxId |-> req[p].sandboxId, timeout |-> req[p].timeout,
          commandId |-> req[p].commandId]
    ELSE NoPrev

\* the locals a handler starts with
Fresh(p, rq) ==
    [NoLoc EXCEPT !.reg0 = sandboxes, !.hist0 = hist[rq.sessionId],
                  !.tcall = NowMs, !.t0 = NowMs,
                  !.prev = IF pc[p] = "done" THEN Summary(p) ELSE NoPrev]

\* request rq is the follow-up of the call that has just ended in slot p:
\* the same kill or kill_command again, or another set_timeout for the same
\* session
FollowsUp(p, rq) ==
    /\ Summary(p) # NoPrev
    /\ rq.action = req[p].action
    /\ rq.sessionId = req[p].sessionId
    /\ rq.sandboxId = req[p].sandboxId
    /\ rq.commandId = req[p].commandId

\* the caller takes the response; the slot is free again
Return(p) ==
    /\ pc[p] = "done"
    /\ UNCHANGED aside
    /\ pc' = [pc EXCEPT ![p] = "idle"]
    /\ req' = [req EXCEPT ![p] = NoReq]
    /\ loc' = [loc EXCEPT ![p] = NoLoc]
    /\ calls' = [calls EXCEPT ![p] = << >>]
    /\ ret' = [ret EXCEPT ![p] = NoRet]
    /\ UNCHANGED <<sandboxes, remote, cmds, now, ncalls, hist>>

\* remote sandboxes that are alive
AliveIdx == {k \in 1..Len(remote) : remote[k].alive}
\* the sandboxes the service has under stable id `id`
Matching(id) == {k \in 1..Len(remote) : RemotePrefix(k) = id}

(***************************************************************************)
(* Environment variables.  A variable name is a tuple of tokens; the       *)
(* marker of the operator's hidden variables is one token.                 *)
(***************************************************************************)
EnvPrefix == <<"E2B_CODE_EV_">>
\* key.startsWith(prefix) / key.substring(prefix.length)
StartsWith(key, prefix) ==
    Len(key) >= Len(prefix) /\ SubSeq(key, 1, Len(prefix)) = prefix
Substring(key, n) == SubSeq(key, n + 1, Len(key))

\* getHiddenEnvVars: the variables of process.env whose name starts with the
\* marker, under their name without it
getHiddenEnvVars(env) ==
    LET hidden == {key \in DOMAIN env : StartsWith(key, EnvPrefix)}
        names == {Substring(key, Len(EnvPrefix)) : key \in hidden}
    IN [n \in names |-> env[EnvPrefix \o n]]

HiddenWins(a, b) ==
    [k \in DOMAIN a \cup DOMAIN b |-> IF k \in DOMAIN a THEN a[k] ELSE b[k]]
\* { ...a, ...b }
Spread(a, b) ==
    [k \in DOMAIN a \cup DOMAIN b |-> IF k \in DOMAIN b THEN b[k] ELSE a[k]]

\* the options of a remote call, given the option `key` when there is a
\* hidden variable or the caller passed envs:
\*   if (Object.keys(hiddenEnvVars).length > 0 || envs) options[key] = {...}
WithEnvs(call, key, rq) ==
    LET hiddenEnvVars == getHiddenEnvVars(penv) IN
    IF DOMAIN hiddenEnvVars # {} \/ rq.envs # None
    THEN call @@ (key :> Spread(hiddenEnvVars,
                                IF rq.envs = None THEN EmptyMap ELSE rq.envs[1]))
    ELSE call

(***************************************************************************)
(* _call, lines 421-471: parameter defaults and clamping.                  *)
(***************************************************************************)
\* timeout = 60 * 60 when the input carries none
Timeout(rq) == IF rq.timeout = None THEN 60 * 60 ELSE rq.timeout[1]
Unclamped(rq) == Timeout(rq)
\* adjustedTimeout: at least one minute
AdjustedTimeout(rq) == IF Timeout(rq) < 1 THEN 1 ELSE Timeout(rq)

(***************************************************************************)
(* case 'help'                                                             *)
(***************************************************************************)
HelpTopics == Actions
Help(p, rq) ==
    /\ rq.action = "help"
    /\ UNCHANGED <<sandboxes, remote, cmds, hist>>
    /\ Done(p, rq, Fresh(p, rq), << >>,
            Returned([message |->
                IF rq.command_name = Undef THEN "overview"
                ELSE IF rq.command_name \in HelpTopics THEN "detail"
                ELSE "no detailed help"]))

(***************************************************************************)
(* case 'create'                                                           *)
(***************************************************************************)
ExistsAndAlive(rq) ==
    /\ Has(sandboxes, rq.sessionId)
    /\ remote[sandboxes[rq.sessionId].sandbox].alive
\* if (sandboxes.has(sessionId)) throw ...
AlreadyExists(rq) == Has(sandboxes, rq.sessionId)

CreateBegin(p, rq) ==
    /\ rq.action = "create"
    /\ UNCHANGED <<sandboxes, remote, cmds, hist>>
    /\ LET lc == Fresh(p, rq) IN
       IF AlreadyExists(rq)
       THEN Throw(p, rq, lc, << >>, "AlreadyExists")
       ELSE Await(p, rq, lc,
                  <<WithEnvs(RemoteCall("Sandbox.create", NoId,
                                        AdjustedTimeout(rq) * 60 * 1000),
                             "env", rq)>>,
                  "create")

\* Sandbox.create resolves or rejects; on success the handle is registered
\* before the probes run
HandleOfFirst(k) == [sandbox |-> 1, lastAccessed |-> NowMs, commands |-> {}]
\* { sandbox: sandboxCreate, lastAccessed: Date.now(), commands: new Map() }
SessionHandle(k) == [sandbox |-> k, lastAccessed |-> NowMs, commands |-> {}]

CreateResolve(p) ==
    /\ pc[p] = "create"
    /\ UNCHANGED aside
    /\ UNCHANGED <<cmds, now, ncalls>>
    /\ \/ /\ Len(remote) < MaxRemote
          /\ LET k == Len(remote) + 1 IN
             /\ remote' = Append(remote,
                    [alive |-> TRUE, deadline |-> NowMs + calls[p][1].n])
             /\ sandboxes' = MapSet(sandboxes, req[p].sessionId, SessionHandle(k))
             /\ hist' = [hist EXCEPT ![req[p].sessionId] =
                             IF @ = "never" THEN "other" ELSE @]
             /\ Await(p, req[p], [loc[p] EXCEPT !.sandbox = k],
                      Append(calls[p], RemoteCall("run whoami", RemoteId(k), 0)),
                      "whoami")
       \/ /\ UNCHANGED <<sandboxes, remote, hist>>
          /\ Throw(p, req[p], loc[p], calls[p], "RemoteUnavailable")

WhoamiResolve(p) ==
    /\ pc[p] = "whoami"
    /\ UNCHANGED aside
    /\ UNCHANGED <<sandboxes, remote, cmds, now, ncalls, hist>>
    /\ \/ /\ remote[loc[p].sandbox].alive
          /\ Await(p, req[p], loc[p],
                   Append(calls[p],
                          RemoteCall("run pwd", RemoteId(loc[p].sandbox), 0)),
                   "pwd")
       \/ Throw(p, req[p], loc[p], calls[p], "RemoteUnavailable")

\* the sandbox id a successful create reports: sandboxCreate.sandboxId
CreatedSandboxId(k) == RemoteId(k)

CreateResponseWithOptions(rq, k, options) ==
    [sandboxId |-> CreatedSandboxId(k),
     currentUser |-> Trim(WhoamiStdout),
     currentDirectory |-> Trim(PwdStdout),
     success |-> TRUE,
     message |-> "created",
     options |-> options]
\* the response of a successful create; `options` is sandboxCreateOptions
CreateResponse(rq, k, options) ==
    [sandboxId |-> CreatedSandboxId(k),
     currentUser |-> Trim(WhoamiStdout),
     currentDirectory |-> Trim(PwdStdout),
     success |-> TRUE,
     message |-> "created"]

PwdResolve(p) ==
    /\ pc[p] = "pwd"
    /\ UNCHANGED aside
    /\ UNCHANGED <<sandboxes, remote, cmds, now, ncalls>>
    /\ \/ /\ remote[loc[p].sandbox].alive
          /\ hist' = [hist EXCEPT ![req[p].sessionId] = "live"]
          /\ Done(p, req[p], loc[p], calls[p],
                  Returned(WithSession(req[p].sessionId,
                      CreateResponse(req[p], loc[p].sandbox, calls[p][1]))))
       \/ /\ UNCHANGED hist
          /\ Throw(p, req[p], loc[p], calls[p], "RemoteUnavailable")

(***************************************************************************)
(* case 'list_sandboxes'                                                   *)
(***************************************************************************)
ListBegin(p, rq) ==
    /\ rq.action = "list_sandboxes"
    /\ UNCHANGED <<sandboxes, remote, cmds, hist>>
    /\ Await(p, rq, Fresh(p, rq),
             <<RemoteCall("Sandbox.list", NoId, 0)>>, "list")

RegisteredDetails(listed) ==
    [k \in listed \cap {sandboxes[s].sandbox : s \in DOMAIN sandboxes} |->
        [sandboxId |-> SplitFirst(RemoteId(k)), status |-> "running"]]
\* sandboxesList.map(...): one entry per listed sandbox, its id cut at '-'
SandboxDetails(listed) ==
    [k \in listed |-> [sandboxId |-> SplitFirst(RemoteId(k)), status |-> "running"]]

ListResolve(p) ==
    /\ pc[p] = "list"
    /\ UNCHANGED aside
    /\ UNCHANGED <<sandboxes, remote, cmds, now, ncalls, hist>>
    /\ \/ Done(p, req[p], loc[p], calls[p],
               Returned(IF AliveIdx = {}
                        THEN [message |-> "No active sandboxes found"]
                        ELSE [message |-> "Active sandboxes found",
                              sandboxes |-> SandboxDetails(AliveIdx)]))
       \* the inner catch of the listing
       \/ Done(p, req[p], loc[p], calls[p],
               Returned([error |-> "Error listing sandboxes"]))

(***************************************************************************)
(* case 'kill'                                                             *)
(***************************************************************************)
SessionFirst(rq) ==
    IF Has(sandboxes, rq.sessionId)
    THEN RemoteId(sandboxes[rq.sessionId].sandbox)
    ELSE rq.sandboxId
\* killSandboxId: the explicit sandboxId, else the id of the session's sandbox
KillSandboxId(rq) ==
    IF rq.sandboxId # NoId THEN rq.sandboxId
    ELSE IF Has(sandboxes, rq.sessionId)
         THEN RemoteId(sandboxes[rq.sessionId].sandbox)
         ELSE NoId

\* const [validSandboxId] = killSandboxId.split('-')
ValidSandboxId(id) == SplitFirst(id)

\* no longer "live" once a kill for the session has begun
Killed(h, s) == [h EXCEPT ![s] = IF @ = "live" THEN "other" ELSE @]

KillBegin(p, rq) ==
    /\ rq.action = "kill"
    /\ UNCHANGED <<sandboxes, remote, cmds>>
    /\ hist' = Killed(hist, rq.sessionId)
    /\ LET id == KillSandboxId(rq)
           lc == [Fresh(p, rq) EXCEPT !.valid = ValidSandboxId(id),
                                  !.dead = id # NoId /\
                                           Matching(SplitFirst(id)) \cap AliveIdx = {}]
       IN IF id = NoId
          THEN Throw(p, rq, lc, << >>, "No sandboxId or sessionId provided")
          ELSE Await(p, rq, lc,
                     <<RemoteCall("Sandbox.connect", ValidSandboxId(id), 0)>>,
                     "connect")

KillFailureAsSuccess(s, msg) ==
    Returned(WithSession(s, [success |-> TRUE, message |-> msg]))
\* what kill returns from the catch of the connect and of the kill
KillFailure(s, msg) ==
    Returned(WithSession(s, [success |-> FALSE, message |-> msg]))

\* if (sandboxes.has(sessionId)) sandboxes.delete(sessionId)
Evict(m, s) == IF Has(m, s) THEN MapDelete(m, s) ELSE m

\* Sandbox.connect resolves with a handle to a sandbox the service has under
\* that id, or rejects; it always rejects for an id the service does not know
ConnectResolve(p) ==
    /\ pc[p] = "connect"
    /\ UNCHANGED aside
    /\ UNCHANGED <<remote, cmds, now, ncalls>>
    /\ \/ \E k \in Matching(loc[p].valid) :
             /\ UNCHANGED <<sandboxes, hist>>
             /\ Await(p, req[p], [loc[p] EXCEPT !.sandbox = k],
                      Append(calls[p], RemoteCall("kill", RemoteId(k), 0)),
                      "kill")
       \/ /\ sandboxes' = Evict(sandboxes, req[p].sessionId)
          /\ hist' = Killed(hist, req[p].sessionId)
          /\ Done(p, req[p], loc[p], calls[p],
                  KillFailure(req[p].sessionId, "No sandbox found"))

\* sandboxToKill.kill() terminates a live sandbox, or rejects; it always
\* rejects for a sandbox that is already gone
KillResolve(p) ==
    /\ pc[p] = "kill"
    /\ UNCHANGED aside
    /\ UNCHANGED <<cmds, now, ncalls>>
    /\ sandboxes' = Evict(sandboxes, req[p].sessionId)
    /\ hist' = Killed(hist, req[p].sessionId)
    /\ \/ /\ remote[loc[p].sandbox].alive
          /\ remote' = [remote EXCEPT ![loc[p].sandbox].alive = FALSE]
          /\ Done(p, req[p], loc[p], calls[p],
                  Returned(WithSession(req[p].sessionId,
                      [success |-> TRUE, message |-> "killed"])))
       \/ /\ UNCHANGED remote
          /\ Done(p, req[p], loc[p], calls[p],
                  KillFailure(req[p].sessionId, "Failed to kill sandbox"))

(***************************************************************************)
(* case 'set_timeout'                                                      *)
(***************************************************************************)
SetTimeoutBegin(p, rq) ==
    /\ rq.action = "set_timeout"
    /\ UNCHANGED <<sandboxes, remote, cmds, hist>>
    /\ LET lc == Fresh(p, rq) IN
       IF ~Has(sandboxes, rq.sessionId)
       THEN Throw(p, rq, lc, << >>, "NotFound")
       ELSE IF Timeout(rq) = 0
       THEN Throw(p, rq, lc, << >>, "MissingParameter")
       ELSE LET k == sandboxes[rq.sessionId].sandbox IN
            Await(p, rq, [lc EXCEPT !.sandbox = k],
                  <<RemoteCall("setTimeout", RemoteId(k),
                               AdjustedTimeout(rq) * 60 * 1000)>>,
                  "set_timeout")

\* sandbox.setTimeout(ms): the service moves the deadline of a live sandbox
\* to ms from now, or rejects
SetTimeoutResolve(p) ==
    /\ pc[p] = "set_timeout"
    /\ UNCHANGED aside
    /\ UNCHANGED <<sandboxes, cmds, now, ncalls, hist>>
    /\ \/ /\ remote[loc[p].sandbox].alive
          /\ remote' = [remote EXCEPT ![loc[p].sandbox].deadline =
                            NowMs + calls[p][1].n]
          /\ Done(p, req[p], [loc[p] EXCEPT !.t0 = NowMs], calls[p],
                  Returned(WithSession(req[p].sessionId,
                      [success |-> TRUE, message |-> "timeout updated"])))
       \/ /\ UNCHANGED remote
          /\ Throw(p, req[p], loc[p], calls[p], "RemoteUnavailable")

(***************************************************************************)
(* default: the operational actions                                        *)
(***************************************************************************)
\* getSandboxInfo: the handle of the session, its lastAccessed refreshed
getSandboxInfo(m, s) == [m EXCEPT ![s].lastAccessed = NowMs]

\* language = 'python' when the input carries none
Language(rq) == IF rq.language = Undef THEN "python" ELSE rq.language

\* the per-action checks of required parameters
MissingParameter(rq) ==
    CASE rq.action \in {"shell", "command_run"} -> rq.cmd \in {Undef, ""}
      [] rq.action = "kill_command" -> rq.commandId \in {Undef, ""}
      [] rq.action = "write_file" ->
            rq.filePath \in {Undef, ""} \/ rq.fileContent \in {Undef, ""}
      [] rq.action \in {"read_file", "get_file_downloadurl"} ->
            rq.filePath \in {Undef, ""}
      [] rq.action \in {"install", "system_install"} ->
            rq.packages \in {Undef, "empty"}
      [] rq.action = "get_host" -> rq.port \in {None, Some(0)}
      [] rq.action = "start_server" ->
            \/ rq.cmd \in {Undef, ""}
            \/ rq.port \in {None, Some(0)}
            \/ rq.logFile \in {Undef, ""}
      [] rq.action \in {"command_kill", "processinfo"} -> rq.pid = None
      [] OTHER -> FALSE

\* the remote call an operational action awaits first
FirstOp(rq) ==
    CASE rq.action \in {"shell", "command_run"} ->
            IF rq.background THEN "run background" ELSE "run"
      [] rq.action \in {"install", "system_install"} -> "run"
      [] rq.action = "start_server" -> "run background"
      [] rq.action = "kill_command" -> "command.kill"
      [] rq.action = "write_file" -> "files.write"
      [] rq.action = "read_file" -> "files.read"
      [] rq.action = "get_file_downloadurl" -> "downloadUrl"
      [] rq.action = "get_host" -> "getHost"
      [] rq.action \in {"command_list", "processinfo"} -> "commands.list"
      [] rq.action = "command_kill" -> "commands.kill"

CmdNames == <<"c1", "c2", "c3">>

\* the actions whose first remote call runs a command, with `envs` among
\* its options
RunsCommand == {"shell", "command_run", "install", "system_install", "start_server"}
Unredirected(rq) == <<rq.cmd>>
\* const serverCommand = `${cmd} > ${logFile} 2>&1`
ServerCommand(rq) == <<rq.cmd, ">", rq.logFile, "2>&1">>

\* the text of a port number inside a message
PortText(n) == IF n = 80 THEN "80" ELSE IF n = 8080 THEN "8080" ELSE "0"

\* the response of start_server for command c of the request and the host
\* the service named
ServerResponse(rq, c, serverHost) ==
    [commandId |-> c, success |-> TRUE, serverHost |-> serverHost,
     logFile |-> rq.logFile,
     message |-> "Server started, accessible at " \o serverHost \o ":"
                    \o PortText(rq.port[1])]

AlwaysPip(rq) == <<"pip install", rq.packages>>
\* `pip install ${packages.join(' ')}` for python, `npm install ...` for
\* javascript and typescript
Installer(rq) ==
    IF Language(rq) = "python" THEN <<"pip install", rq.packages>>
    ELSE <<"npm install", rq.packages>>

\* the first remote call of an operational action on sandbox k
OpCall(rq, k) ==
    IF rq.action = "install"
    THEN WithEnvs(RemoteCall(FirstOp(rq), RemoteId(k), 0), "envs", rq)
            @@ [cmd |-> Installer(rq)]
    ELSE IF rq.action = "start_server"
    THEN WithEnvs(RemoteCall(FirstOp(rq), RemoteId(k), 0), "envs", rq)
            @@ [cmd |-> ServerCommand(rq)]
    ELSE IF rq.action \in RunsCommand
    THEN WithEnvs(RemoteCall(FirstOp(rq), RemoteId(k), 0), "envs", rq)
    ELSE RemoteCall(FirstOp(rq), RemoteId(k), 0)

CommandOfAnySession(m, s, c) == \E t \in DOMAIN m : c \in m[t].commands
\* const commandToKill = sandboxInfo.commands.get(commandId): whether the
\* handle of session s tracks command c
CommandsGet(m, s, c) == c \in m[s].commands

\* what the handler throws after the session is resolved and before any
\* remote call, "" when nothing
ActionError(rq) ==
    IF MissingParameter(rq) THEN "MissingParameter"
    ELSE IF rq.action = "unknown" THEN "Unknown action"
    ELSE IF rq.action = "install"
            /\ Language(rq) \notin {"python", "javascript", "typescript"}
    THEN "Unsupported language"
    ELSE IF rq.action = "kill_command"
            /\ ~CommandsGet(sandboxes, rq.sessionId, rq.commandId)
    THEN "No background command found"
    ELSE ""

ParametersFirst(rq) ==
    IF MissingParameter(rq) THEN "MissingParameter"
    ELSE IF ~Has(sandboxes, rq.sessionId) THEN "NotFound"
    ELSE ActionError(rq)
\* what an operational action throws before any remote call: getSandboxInfo
\* comes first, then the checks of the action
OpError(rq) ==
    IF ~Has(sandboxes, rq.sessionId) THEN "NotFound" ELSE ActionError(rq)

OpBegin(p, rq) ==
    /\ rq.action \in Operational \cup {"unknown"}
    /\ UNCHANGED <<remote, cmds, hist>>
    /\ LET lc == Fresh(p, rq) IN
       IF ~Has(sandboxes, rq.sessionId)
       THEN /\ UNCHANGED sandboxes
            /\ Throw(p, rq, lc, << >>, OpError(rq))
       ELSE
         /\ sandboxes' = getSandboxInfo(sandboxes, rq.sessionId)
         /\ LET k == sandboxes[rq.sessionId].sandbox
                lk == [lc EXCEPT !.sandbox = k]
            IN
            IF OpError(rq) # ""
            THEN Throw(p, rq, lk, << >>, OpError(rq))
            ELSE Await(p, rq, lk, <<OpCall(rq, k)>>, "op")

\* sandboxInfo.commands.set(cmdId, handle) / .delete(commandId), on the
\* handle the request resolved
CommandsSetAnew(m, s, c) ==
    IF Has(m, s) THEN [m EXCEPT ![s].commands = @ \cup {c}]
    ELSE MapSet(m, s, [sandbox |-> Len(remote), lastAccessed |-> NowMs, commands |-> {c}])
CommandsSet(m, s, c) ==
    IF Has(m, s) THEN [m EXCEPT ![s].commands = @ \cup {c}] ELSE m
CommandsKeep(m, s, c) == m
CommandsDelete(m, s, c) ==
    IF Has(m, s) THEN [m EXCEPT ![s].commands = @ \ {c}] ELSE m

\* the response of an operational action whose single remote call resolved;
\* `code` is the exit code of a command, `ok` the answer of a lookup
OpResponse(rq, code, ok) ==
    CASE rq.action = "shell" ->
            [output |-> "stdout", error |-> "stderr", exitCode |-> code]
      [] rq.action = "command_run" ->
            [stdout |-> "stdout", stderr |-> "stderr", exitCode |-> code,
             success |-> (code = 0)]
      [] rq.action \in {"install", "system_install"} ->
            [success |-> (code = 0), output |-> "stdout", error |-> "stderr"]
      [] rq.action = "kill_command" ->
            [success |-> TRUE, message |-> "command killed"]
      [] rq.action = "write_file" ->
            [success |-> TRUE, message |-> "File written"]
      [] rq.action = "read_file" -> [content |-> "content", success |-> TRUE]
      [] rq.action = "get_file_downloadurl" ->
            [success |-> TRUE, downloadUrl |-> "url", message |-> "url generated"]
      [] rq.action = "get_host" ->
            [host |-> "host", port |-> rq.port[1], message |-> "host retrieved"]
      [] rq.action = "command_list" -> [success |-> TRUE, processes |-> "list"]
      [] rq.action = "command_kill" ->
            IF ok THEN [success |-> TRUE, message |-> "process killed"]
            ELSE [success |-> FALSE, message |-> "Failed to kill process"]
      [] rq.action = "processinfo" ->
            IF ok THEN [success |-> TRUE, process |-> "info"]
            ELSE [success |-> FALSE, message |-> "No process found"]

EntryDroppedOnReject(m, rq) ==
    IF rq.action = "kill_command" /\ Has(m, rq.sessionId)
    THEN [m EXCEPT ![rq.sessionId].commands = @ \ {rq.commandId}]
    ELSE m
\* the registry after the awaited remote call of an operational action has
\* rejected: the statements after the await are skipped
RegistryAfterReject(m, rq) == m

NotAwaited(lc, op) == TRUE
\* const result = await sandbox.commands.run(cmd, options) without
\* `background`: the promise resolves when the process has exited
RunAwaited(lc, op) == op = "run" => lc.exited

\* the process of the foreground run that slot p awaits exits at the service
RunExit(p) ==
    /\ pc[p] = "op"
    /\ calls[p][1].op = "run"
    /\ ~loc[p].exited
    /\ remote[loc[p].sandbox].alive
    /\ \E code \in {0, 1} :
          loc' = [loc EXCEPT ![p].exited = TRUE, ![p].exitCode = code]
    /\ UNCHANGED <<sandboxes, remote, cmds, now, pc, req, calls, ret, ncalls, hist>>
    /\ UNCHANGED aside

OpResolve(p) ==
    /\ pc[p] = "op"
    /\ UNCHANGED aside
    /\ UNCHANGED <<remote, now, ncalls, hist>>
    /\ LET rq == req[p]
           s == rq.sessionId
           k == loc[p].sandbox
           op == calls[p][1].op
       IN
       \* the remote call rejects (always, when the sandbox is gone)
       \/ /\ sandboxes' = RegistryAfterReject(sandboxes, rq)
          /\ UNCHANGED cmds
          /\ Throw(p, rq, loc[p], calls[p], "RemoteUnavailable")
       \* a command starts in the background
       \/ /\ remote[k].alive /\ op = "run background"
          /\ Len(cmds) < MaxCmds
          /\ LET c == CmdNames[Len(cmds) + 1] IN
             /\ cmds' = Append(cmds, [sandbox |-> k, running |-> TRUE])
             /\ sandboxes' = CommandsSet(sandboxes, s, c)
             /\ IF rq.action = "start_server"
                THEN Await(p, rq, [loc[p] EXCEPT !.cmd = c],
                           Append(calls[p], RemoteCall("getHost", RemoteId(k), rq.port[1])),
                           "server_host")
                ELSE Done(p, rq, [loc[p] EXCEPT !.cmd = c], calls[p],
                          Returned(WithSession(s,
                              [commandId |-> c, success |-> TRUE,
                               message |-> "Background command started"])))
       \* a tracked background command is killed
       \/ /\ remote[k].alive /\ op = "command.kill"
          /\ \E j \in 1..Len(cmds) :
                /\ CmdNames[j] = rq.commandId
                /\ cmds' = [cmds EXCEPT ![j].running = FALSE]
          /\ sandboxes' = CommandsDelete(sandboxes, s, rq.commandId)
          /\ Done(p, rq, loc[p], calls[p],
                  Returned(WithSession(s, OpResponse(rq, 0, TRUE))))
       \* any other call resolves
       \/ /\ remote[k].alive /\ op \notin {"run background", "command.kill"}
          /\ RunAwaited(loc[p], op)
          /\ UNCHANGED <<sandboxes, cmds>>
          /\ \E code \in {0, 1}, ok \in BOOLEAN :
                /\ op = "run" => code = loc[p].exitCode
                /\ Done(p, rq, loc[p], calls[p],
                        Returned(WithSession(s, OpResponse(rq, code, ok))))

\* start_server: sandbox.getHost(port) after the server command started
ServerHostResolve(p) ==
    /\ pc[p] = "server_host"
    /\ UNCHANGED aside
    /\ UNCHANGED <<sandboxes, remote, cmds, now, ncalls, hist>>
    /\ \/ /\ remote[loc[p].sandbox].alive
          /\ Done(p, req[p], loc[p], calls[p],
                  Returned(WithSession(req[p].sessionId,
                      ServerResponse(req[p], loc[p].cmd, "host"))))
       \/ Throw(p, req[p], loc[p], calls[p], "RemoteUnavailable")

(***************************************************************************)
(* The requests the callers send.                                          *)
(***************************************************************************)
LifecycleRequests ==
    {[Req("help", Undef) EXCEPT !.command_name = c] : c \in {Undef, "kill", "nosuch"}}
      \cup {[Req("create", s) EXCEPT !.timeout = t] :
                s \in Sids, t \in {None, Some(-1), Some(2)}}
      \cup {Req("list_sandboxes", Undef)}
      \cup {[Req("kill", s) EXCEPT !.sandboxId = i] :
                s \in SessionIds, i \in SandboxIdInputs}
      \cup {[Req("set_timeout", s) EXCEPT !.timeout = t] :
                s \in SessionIds, t \in TimeoutInputs}

\* for each operational action: a complete request and requests that lack a
\* required parameter
OperationalVariants(s) ==
    {[Req(a, s) EXCEPT !.cmd = c, !.background = b] :
        a \in {"shell", "command_run"}, c \in {Undef, "cmd"}, b \in BOOLEAN}
      \cup {[Req("kill_command", s) EXCEPT !.commandId = c] :
                c \in {Undef, "c9"} \cup {CmdNames[j] : j \in 1..MaxCmds}}
      \cup {[Req("write_file", s) EXCEPT !.filePath = f[1], !.fileContent = f[2]] :
                f \in {<<"f", "data">>, <<Undef, "data">>, <<"f", Undef>>, <<"f", "">>}}
      \cup {[Req(a, s) EXCEPT !.filePath = f] :
                a \in {"read_file", "get_file_downloadurl"}, f \in {Undef, "f"}}
      \cup {[Req("install", s) EXCEPT !.packages = k[1], !.language = k[2]] :
                k \in {<<"some", Undef>>, <<"some", "typescript">>,
                       <<"some", "shell">>, <<"empty", Undef>>, <<Undef, "shell">>}}
      \cup {[Req("system_install", s) EXCEPT !.packages = k] : k \in {Undef, "some"}}
      \cup {[Req("get_host", s) EXCEPT !.port = n] : n \in {None, Some(0), Some(80)}}
      \cup {[Req("start_server", s) EXCEPT !.cmd = v[1], !.port = v[2], !.logFile = v[3]] :
                v \in {<<"cmd", Some(80), "log">>, <<Undef, Some(80), "log">>,
                       <<"cmd", None, "log">>, <<"cmd", Some(80), Undef>>}}
      \cup {Req("command_list", s), Req("unknown", s)}
      \cup {[Req(a, s) EXCEPT !.pid = n] :
                a \in {"command_kill", "processinfo"}, n \in {None, Some(7)}}

Requests ==
    LifecycleRequests
      \cup UNION {OperationalVariants(s) : s \in Sids}
      \cup {Req("command_list", Undef)}

(***************************************************************************)
(* _call: the synchronous prefix of the handler of request rq, up to its   *)
(* first await or its return.                                              *)
(***************************************************************************)
Dispatch(p, rq) ==
    /\ pc[p] = "idle" \/ (pc[p] = "done" /\ FollowsUp(p, rq))
    /\ ncalls' = ncalls + 1
    /\ UNCHANGED now
    /\ UNCHANGED aside
    /\ \/ Help(p, rq)
       \/ CreateBegin(p, rq)
       \/ ListBegin(p, rq)
       \/ KillBegin(p, rq)
       \/ SetTimeoutBegin(p, rq)
       \/ OpBegin(p, rq)

\* a caller sends request rq
Call(p, rq) ==
    /\ ncalls < MaxCalls
    /\ Dispatch(p, rq)

(***************************************************************************)
(* The environment: time passes, and the service destroys a sandbox whose  *)
(* deadline has passed.                                                    *)
(***************************************************************************)
Tick ==
    /\ now < MaxTicks
    /\ \A p \in Procs : pc[p] # "done"
    /\ now' = now + 1
    /\ UNCHANGED <<sandboxes, remote, cmds, pc, req, loc, calls, ret, ncalls, hist>>
    /\ UNCHANGED aside

Expire ==
    /\ \A p \in Procs : pc[p] # "done"
    /\ \E k \in AliveIdx :
          /\ NowMs >= remote[k].deadline
          /\ remote' = [remote EXCEPT ![k].alive = FALSE]
    /\ UNCHANGED <<sandboxes, cmds, now, pc, req, loc, calls, ret, ncalls, hist>>
    /\ UNCHANGED aside

\* requests are served one after the other
Next ==
    \/ \E rq \in Requests : Call(MainProc, rq)
    \/ CreateResolve(MainProc)
    \/ WhoamiResolve(MainProc)
    \/ PwdResolve(MainProc)
    \/ ListResolve(MainProc)
    \/ ConnectResolve(MainProc)
    \/ KillResolve(MainProc)
    \/ SetTimeoutResolve(MainProc)
    \/ RunExit(MainProc)
    \/ OpResolve(MainProc)
    \/ ServerHostResolve(MainProc)
    \/ Return(MainProc)
    \/ Tick
    \/ Expire

Spec == Init /\ [][Next]_vars

(***************************************************************************)
(* The background-command scenario: sessions are created, commands are     *)
(* started in the background and killed by id.                             *)
(***************************************************************************)
CommandRequests ==
    {[Req("create", s) EXCEPT !.timeout = Some(2)] : s \in Sids}
      \cup {[Req(a, s) EXCEPT !.cmd = "cmd", !.background = TRUE] :
                a \in {"shell", "command_run"}, s \in Sids}
      \cup {[Req("kill_command", s) EXCEPT !.commandId = c] :
                s \in Sids, c \in {CmdNames[j] : j \in 1..MaxCmds}}

CommandCall(p, rq) ==
    /\ ncalls < MaxCommandCalls
    /\ Dispatch(p, rq)

NextCommands ==
    \/ \E rq \in CommandRequests : CommandCall(MainProc, rq)
    \/ CreateResolve(MainProc)
    \/ WhoamiResolve(MainProc)
    \/ PwdResolve(MainProc)
    \/ OpResolve(MainProc)
    \/ Return(MainProc)

SpecCommands == Init /\ [][NextCommands]_vars

(***************************************************************************)
(* The environment scenario: the process has hidden variables, a session   *)
(* is created and commands run in it, each with or without envs.           *)
(***************************************************************************)
\* process.env: no variable; an ordinary variable; hidden variables, one of
\* them under a name the callers also pass
ProcessEnvs ==
    {EmptyMap,
     (<<"PATH">> :> "bin"),
     (<<"PATH">> :> "bin") @@ (EnvPrefix \o <<"KEY">> :> "operator"),
     (EnvPrefix \o <<"KEY">> :> "operator") @@ (EnvPrefix \o <<"TOKEN">> :> "secret")}

\* the envs parameter: absent, empty, a name the operator also defines, and
\* that name with one more
EnvsInputs ==
    {None, Some(EmptyMap), Some(<<"KEY">> :> "caller"),
     Some((<<"KEY">> :> "caller") @@ (<<"HOME">> :> "home"))}

EnvRequests ==
    UNION {
        {[Req("create", s) EXCEPT !.timeout = Some(2), !.envs = e] : s \in Sids}
          \cup {[Req(a, s) EXCEPT !.cmd = "cmd", !.background = b, !.envs = e] :
                    a \in {"shell", "command_run"}, s \in Sids, b \in BOOLEAN}
          \cup {[Req("install", s) EXCEPT !.packages = "some", !.envs = e] : s \in Sids}
          \cup {[Req("system_install", s) EXCEPT !.packages = "some", !.envs = e] :
                    s \in Sids}
          \cup {[Req("start_server", s) EXCEPT !.cmd = "cmd", !.port = Some(80),
                                               !.logFile = "log", !.envs = e] :
                    s \in Sids}
        : e \in EnvsInputs}

EnvCall(p, rq) ==
    /\ ncalls < MaxEnvCalls
    /\ Dispatch(p, rq)

InitEnv == Loaded /\ penv \in ProcessEnvs

NextEnv ==
    \/ \E rq \in EnvRequests : EnvCall(MainProc, rq)
    \/ CreateResolve(MainProc)
    \/ WhoamiResolve(MainProc)
    \/ PwdResolve(MainProc)
    \/ RunExit(MainProc)
    \/ OpResolve(MainProc)
    \/ ServerHostResolve(MainProc)
    \/ Return(MainProc)

SpecEnv == InitEnv /\ [][NextEnv]_vars

(***************************************************************************)
(* models/Sandbox.js: the record store.  No handler of E2BCode.js calls    *)
(* these; they are what the store offers.                                  *)
(***************************************************************************)
\* Sandbox.create({ sandboxId, sessionId, expiredAt: Date.now() + timeoutMs })
createSandbox(recs, sandboxId, sessionId, timeoutMs) ==
    recs \cup {[sandboxId |-> sandboxId, sessionId |-> sessionId,
                expiredAt |-> NowMs + timeoutMs]}
\* Sandbox.updateOne({ sessionId }, { expiredAt: Date.now() + timeoutMs })
setTimeoutForSandbox(recs, sessionId, timeoutMs) ==
    IF \E r \in recs : r.sessionId = sessionId
    THEN LET r == CHOOSE x \in recs : x.sessionId = sessionId IN
         (recs \ {r}) \cup {[r EXCEPT !.expiredAt = NowMs + timeoutMs]}
    ELSE recs
\* Sandbox.findOne({ sandboxId })
findSandboxById(recs, sandboxId) == {r \in recs : r.sandboxId = sandboxId}
\* Sandbox.deleteOne({ sandboxId })
deleteSandboxById(recs, sandboxId) ==
    IF \E r \in recs : r.sandboxId = sandboxId
    THEN recs \ {CHOOSE r \in recs : r.sandboxId = sandboxId}
    ELSE recs
\* Sandbox.find({}): every record, expired or not
getActiveSandboxes(recs) == recs

(***************************************************************************)
(* The restart scenario.  The store is durable: the process starts with    *)
(* the record an earlier process left for a sandbox that is still alive at *)
(* the service, and with an empty registry.                                *)
(***************************************************************************)
\* the process exits and is started again: its memory is lost, the store
\* and the remote service are what they were
Restart ==
    /\ sandboxes' = EmptyMap
    /\ pc' = [p \in Procs |-> "idle"]
    /\ req' = [p \in Procs |-> NoReq]
    /\ loc' = [p \in Procs |-> NoLoc]
    /\ calls' = [p \in Procs |-> << >>]
    /\ ret' = [p \in Procs |-> NoRet]
    /\ reaper' = NoReaper
    /\ UNCHANGED <<remote, cmds, now, ncalls, hist, records, penv>>

StoreRequests ==
    {[Req("create", s) EXCEPT !.timeout = Some(2)] : s \in Sids}
      \cup {[Req("kill", s) EXCEPT !.sandboxId = i] :
                s \in Sids, i \in {NoId, RemoteId(1)}}
      \cup {[Req("set_timeout", s) EXCEPT !.timeout = Some(2)] : s \in Sids}
      \cup {[Req("shell", s) EXCEPT !.cmd = "cmd"] : s \in Sids}
      \cup {Req("command_list", s) : s \in Sids}
      \cup {Req("help", Undef), Req("list_sandboxes", Undef)}

StoreCall(p, rq) ==
    /\ ncalls < MaxStoreCalls
    /\ Dispatch(p, rq)

InitStore ==
    /\ sandboxes = EmptyMap
    /\ remote = <<[alive |-> TRUE, deadline |-> (MaxTicks + 1) * TickMs]>>
    /\ cmds = << >>
    /\ now = 0
    /\ pc = [p \in Procs |-> "idle"]
    /\ req = [p \in Procs |-> NoReq]
    /\ loc = [p \in Procs |-> NoLoc]
    /\ calls = [p \in Procs |-> << >>]
    /\ ret = [p \in Procs |-> NoRet]
    /\ ncalls = 0
    /\ hist = [s \in SessionIds |-> "never"]
    /\ \E s \in Sids :
          records = createSandbox({}, RemoteId(1), s, (MaxTicks + 1) * TickMs)
    /\ penv = EmptyMap
    /\ reaper = NoReaper

NextStore ==
    \/ \E rq \in StoreRequests : StoreCall(MainProc, rq)
    \/ CreateResolve(MainProc)
    \/ WhoamiResolve(MainProc)
    \/ PwdResolve(MainProc)
    \/ ListResolve(MainProc)
    \/ ConnectResolve(MainProc)
    \/ KillResolve(MainProc)
    \/ SetTimeoutResolve(MainProc)
    \/ RunExit(MainProc)
    \/ OpResolve(MainProc)
    \/ Return(MainProc)
    \/ Restart
    \/ Tick

SpecStore == InitStore /\ [][NextStore]_vars

(***************************************************************************)
(* The reaper of the version of the tool that has one (unnamed/part_002,   *)
(* 562-589), run against the registry and the handlers of _call.           *)
(***************************************************************************)
\* if (now - lastAccessed > 10 * 60 * 1000)
InactivityMs == 10 * 60 * 1000
\* setInterval(cleanupInactiveSandboxes, 5 * 60 * 1000)
SweepIntervalMs == 5 * 60 * 1000

\* the entries of registry m that a sweep begun at time t finds inactive
Inactive(m, t) == {s \in DOMAIN m : t - m[s].lastAccessed > InactivityMs}

\* the for-loop of cleanupInactiveSandboxes over registry m, up to its next
\* await: it stops at an inactive entry and awaits sandbox.kill(), or ends.
\* An entry the loop has passed is not met again: one it left in place is
\* not inactive for this sweep, and neither is one set after the sweep began.
SweepLoop(m, t) ==
    IF Inactive(m, t) = {}
    THEN reaper' = NoReaper
    ELSE \E s \in Inactive(m, t) :
            reaper' = [pc |-> "kill", now |-> t, sid |-> s, sandbox |-> m[s].sandbox]

\* the interval has elapsed and the timer calls cleanupInactiveSandboxes
cleanupInactiveSandboxes ==
    /\ reaper.pc = "idle"
    /\ \A p \in Procs : pc[p] # "done"
    /\ NowMs + SweepIntervalMs <= MaxSweeps * SweepIntervalMs
    /\ now' = now + SweepIntervalMs \div TickMs
    /\ SweepLoop(sandboxes, NowMs + SweepIntervalMs)
    /\ UNCHANGED <<sandboxes, remote, cmds, pc, req, loc, calls, ret, ncalls, hist,
                   records, penv>>

RecordsOfSessionDeleted(recs, s) == {r \in recs : r.sessionId # s}
\* what the eviction of session s does to the record store: the loop calls
\* nothing but sandbox.kill() and sandboxes.delete(sessionId)
RecordsAfterEviction(recs, s) == recs

\* the sandbox.kill() the reaper awaits settles, resolved or rejected; the
\* entry of the session is deleted and the loop goes on
KillSettled ==
    /\ reaper.pc = "kill"
    /\ \/ /\ remote[reaper.sandbox].alive
          /\ remote' = [remote EXCEPT ![reaper.sandbox].alive = FALSE]
       \/ UNCHANGED remote
    /\ sandboxes' = MapDelete(sandboxes, reaper.sid)
    /\ hist' = Killed(hist, reaper.sid)
    /\ SweepLoop(MapDelete(sandboxes, reaper.sid), reaper.now)
    /\ records' = RecordsAfterEviction(records, reaper.sid)
    /\ UNCHANGED <<cmds, now, pc, req, loc, calls, ret, ncalls, penv>>

ReaperRequests ==
    {[Req("create", s) EXCEPT !.timeout = Some(2)] : s \in Sids}
      \cup {Req("kill", s) : s \in Sids}
      \cup {[Req("set_timeout", s) EXCEPT !.timeout = Some(2)] : s \in Sids}
      \cup {Req("command_list", s) : s \in Sids}

ReaperCall(p, rq) ==
    /\ ncalls < MaxReaperCalls
    /\ Dispatch(p, rq)

NextReaper ==
    \/ \E rq \in ReaperRequests : ReaperCall(MainProc, rq)
    \/ CreateResolve(MainProc)
    \/ WhoamiResolve(MainProc)
    \/ PwdResolve(MainProc)
    \/ ConnectResolve(MainProc)
    \/ KillResolve(MainProc)
    \/ SetTimeoutResolve(MainProc)
    \/ OpResolve(MainProc)
    \/ Return(MainProc)
    \/ Expire
    \/ cleanupInactiveSandboxes
    \/ KillSettled

SpecReaper == Init /\ [][NextReaper]_vars
\* the same, in a process that found a record in the durable store
SpecReaperStore == InitStore /\ [][NextReaper]_vars

(***************************************************************************)
(* Two callers: a second request is received while the handler of the      *)
(* first awaits a remote call.                                             *)
(***************************************************************************)
ConcurrentRequests ==
    {[Req("create", s) EXCEPT !.timeout = Some(2)] : s \in Sids}
      \cup {Req("kill", s) : s \in Sids}
      \cup {[Req("shell", s) EXCEPT !.cmd = "cmd", !.background = TRUE] : s \in Sids}
      \cup {[Req("kill_command", s) EXCEPT !.commandId = CmdNames[1]] : s \in Sids}

ConcurrentCall(p, rq) ==
    /\ ncalls < MaxConcurrentCalls
    /\ Dispatch(p, rq)

NextConcurrent ==
    \E p \in Procs :
        \/ \E rq \in ConcurrentRequests : ConcurrentCall(p, rq)
        \/ CreateResolve(p)
        \/ WhoamiResolve(p)
        \/ PwdResolve(p)
        \/ ConnectResolve(p)
        \/ KillResolve(p)
        \/ OpResolve(p)
        \/ Return(p)

SpecConcurrent == Init /\ [][NextConcurrent]_vars

(***************************************************************************)
(* Incomplete requests: a session is created, with or without a sessionId, *)
(* and requests arrive that lack a parameter of their action.              *)
(***************************************************************************)
ParameterRequests ==
    {[Req("create", s) EXCEPT !.timeout = Some(2)] : s \in SessionIds}
      \cup {Req("set_timeout", s) : s \in Sids}
      \cup UNION {OperationalVariants(s) : s \in Sids}

ParameterCall(p, rq) ==
    /\ ncalls < MaxParameterCalls
    /\ Dispatch(p, rq)

NextParameters ==
    \/ \E rq \in ParameterRequests : ParameterCall(MainProc, rq)
    \/ CreateResolve(MainProc)
    \/ WhoamiResolve(MainProc)
    \/ PwdResolve(MainProc)
    \/ SetTimeoutResolve(MainProc)
    \/ RunExit(MainProc)
    \/ OpResolve(MainProc)
    \/ ServerHostResolve(MainProc)
    \/ Return(MainProc)

SpecParameters == Init /\ [][NextParameters]_vars

(***************************************************************************)
(* Package installation, for each language a request may name.             *)
(***************************************************************************)
InstallRequests ==
    {[Req("create", s) EXCEPT !.timeout = Some(2)] : s \in Sids}
      \cup {[Req("install", s) EXCEPT !.packages = "some", !.language = l] :
                s \in Sids,
                l \in {Undef, "python", "javascript", "typescript", "ruby", ""}}

InstallCall(p, rq) ==
    /\ ncalls < MaxInstallCalls
    /\ Dispatch(p, rq)

NextInstall ==
    \/ \E rq \in InstallRequests : InstallCall(MainProc, rq)
    \/ CreateResolve(MainProc)
    \/ WhoamiResolve(MainProc)
    \/ PwdResolve(MainProc)
    \/ RunExit(MainProc)
    \/ OpResolve(MainProc)
    \/ Return(MainProc)

SpecInstall == Init /\ [][NextInstall]_vars

(***************************************************************************)
(* The process scenario: commands run in the foreground and in the         *)
(* background, exit on their own, are listed, inspected and killed.        *)
(***************************************************************************)
CommandsWithout(m, c) == [s \in DOMAIN m |-> [m[s] EXCEPT !.commands = @ \ {c}]]
\* what the exit of background command c does to the registry: nothing,
\* the tool is not told
CommandsAfterExit(m, c) == m

\* background command j exits on its own
CommandExit(j) ==
    /\ cmds[j].running
    /\ remote[cmds[j].sandbox].alive
    /\ cmds' = [cmds EXCEPT ![j].running = FALSE]
    /\ sandboxes' = CommandsAfterExit(sandboxes, CmdNames[j])
    /\ UNCHANGED <<remote, now, pc, req, loc, calls, ret, ncalls, hist>>
    /\ UNCHANGED aside

ProcessRequests ==
    {[Req("create", s) EXCEPT !.timeout = Some(2)] : s \in Sids}
      \cup {[Req(a, s) EXCEPT !.cmd = "cmd", !.background = b] :
                a \in {"shell", "command_run"}, s \in Sids, b \in BOOLEAN}
      \cup {[Req("kill_command", s) EXCEPT !.commandId = CmdNames[1]] : s \in Sids}
      \cup {[Req(a, s) EXCEPT !.pid = Some(7)] :
                a \in {"command_kill", "processinfo"}, s \in Sids}
      \cup {Req(a, s) : a \in {"command_list", "kill"}, s \in Sids}
      \cup {[Req("start_server", s) EXCEPT !.cmd = "cmd", !.port = Some(n),
                                           !.logFile = "log", !.background = b] :
                s \in Sids, n \in {80, 8080}, b \in BOOLEAN}

NextProcesses ==
    \/ \E rq \in ProcessRequests : CommandCall(MainProc, rq)
    \/ CreateResolve(MainProc)
    \/ WhoamiResolve(MainProc)
    \/ PwdResolve(MainProc)
    \/ ConnectResolve(MainProc)
    \/ KillResolve(MainProc)
    \/ RunExit(MainProc)
    \/ OpResolve(MainProc)
    \/ ServerHostResolve(MainProc)
    \/ Return(MainProc)
    \/ \E j \in 1..Len(cmds) : CommandExit(j)

SpecProcesses == Init /\ [][NextProcesses]_vars

(***************************************************************************)
(* Properties.  They are stated on the call that has ended (or is in       *)
(* flight) in the slot that serves the requests.                           *)
(***************************************************************************)
\* the call in flight or just ended, its locals and its outcome
TheReq == req[MainProc]
TheLoc == loc[MainProc]
TheCalls == calls[MainProc]
TheRet == ret[MainProc]
\* a call of action a has ended
Ended(a) == pc[MainProc] = "done" /\ TheReq.action = a
\* the response carries key k
Carries(k) == TheRet.kind = "returned" /\ k \in DOMAIN TheRet.json

\* C1: once create(s) has succeeded and no kill(s) has happened since, a
\* further create(s) never reaches the remote service: it ends at once with
\* the AlreadyExists envelope (success false, the sessionId of the request),
\* without a remote call, and the registry, the handle of s included, is
\* what it was when the call began.
C1_SecondCreateAlreadyExists ==
    (TheReq.action = "create" /\ TheLoc.hist0 = "live")
      => /\ pc[MainProc] = "done"
         /\ TheRet.kind = "returned"
         /\ TheRet.json = [sessionId |-> TheReq.sessionId,
                           error |-> "AlreadyExists", success |-> FALSE]
         /\ TheCalls = << >>
         /\ Has(sandboxes, TheReq.sessionId)
         /\ sandboxes = TheLoc.reg0

C1_Witness ==
    /\ Ended("create")
    /\ TheLoc.hist0 = "live"
    /\ Carries("error")
    /\ TheRet.json.error = "AlreadyExists"

\* C2: set_timeout and every operational action, called for a sessionId for
\* which no sandbox was ever created (or without a sessionId), ends at once
\* by returning the NotFound envelope with success false, whatever its other
\* parameters are, without a remote call and without a change of the
\* registry.
C2_NeverCreatedNotFound ==
    (TheReq.action \in {"set_timeout"} \cup Operational /\ TheLoc.hist0 = "never")
      => /\ pc[MainProc] = "done"
         /\ TheRet.kind = "returned"
         /\ Carries("error") /\ TheRet.json.error = "NotFound"
         /\ Carries("success") /\ ~TheRet.json.success
         /\ TheCalls = << >>
         /\ sandboxes = TheLoc.reg0

C2_Witness ==
    /\ pc[MainProc] = "done"
    /\ TheReq.action \in Operational
    /\ TheReq.sessionId \in Sids
    /\ TheLoc.hist0 = "never"
    /\ MissingParameter(TheReq)
    /\ Carries("error")
    /\ TheRet.json.error = "NotFound"

\* C3: every call of _call ends by returning one JSON object, whatever the
\* action, the registry and the outcome of the remote service; nothing is
\* thrown to the caller, and nothing is handed back before the call ends.
C3_AlwaysReturnsJson ==
    /\ pc[MainProc] = "done"
         => TheRet.kind = "returned" /\ DOMAIN TheRet.json # {}
    /\ pc[MainProc] # "done" => TheRet = NoRet

C3_Witness ==
    /\ pc[MainProc] = "done"
    /\ TheCalls # << >>
    /\ Carries("error")
    /\ TheRet.json.error = "RemoteUnavailable"

\* the call ended in a failure: it reports success false, or it is a listing
\* that reports an error
Failed ==
    /\ pc[MainProc] = "done"
    /\ TheRet.kind = "returned"
    /\ \/ Carries("success") /\ ~TheRet.json.success
       \/ TheReq.action = "list_sandboxes" /\ Carries("error")

\* C4: whenever an action fails, the response carries an `error` message,
\* success false and, when the request had one, the sessionId of the request.
C4_FailureEnvelope ==
    Failed
      => /\ Carries("error")
         /\ Carries("success") /\ ~TheRet.json.success
         /\ TheReq.sessionId # Undef
              => Carries("sessionId") /\ TheRet.json.sessionId = TheReq.sessionId

\* C5: once kill has resolved a sandbox id, the call returns and on return no
\* handle of the registry refers to the sandbox of that id.
C5_KillLeavesNoHandle ==
    (Ended("kill") /\ TheCalls # << >>)
      => /\ TheRet.kind = "returned"
         /\ \A s \in DOMAIN sandboxes :
               RemotePrefix(sandboxes[s].sandbox) # TheLoc.valid

Target(rq, reg) ==
    IF rq.sandboxId # NoId
    THEN {k \in 1..Len(remote) : rq.sandboxId \in {RemoteId(k), RemotePrefix(k)}}
    ELSE IF Has(reg, rq.sessionId) THEN {reg[rq.sessionId].sandbox}
    ELSE {}

\* C7: kill reconnects to and terminates the sandbox named by the explicit
\* sandboxId whenever one is given, also when the handle of the session
\* refers to another sandbox; the sandbox of the session's handle is used
\* only when no sandboxId is given; with neither, kill ends at once with an
\* error envelope and no remote call.
C7_ExplicitSandboxIdWins ==
    TheReq.action = "kill"
      => LET t == Target(TheReq, TheLoc.reg0) IN
         /\ (TheReq.sandboxId = NoId /\ ~Has(TheLoc.reg0, TheReq.sessionId))
              => /\ pc[MainProc] = "done"
                 /\ TheCalls = << >>
                 /\ Carries("error")
                 /\ Carries("success") /\ ~TheRet.json.success
         /\ (TheReq.sandboxId # NoId \/ Has(TheLoc.reg0, TheReq.sessionId))
              => /\ TheCalls # << >>
                 /\ TheCalls[1].op = "Sandbox.connect"
                 /\ \A k \in t : TheCalls[1].id = RemotePrefix(k)
                 /\ Len(TheCalls) > 1
                      => /\ TheCalls[2].op = "kill"
                         /\ TheLoc.sandbox \in t
                         /\ TheCalls[2].id = RemoteId(TheLoc.sandbox)
                 /\ (pc[MainProc] = "done" /\ Succeeded(TheRet))
                      => TheLoc.sandbox \in t /\ ~remote[TheLoc.sandbox].alive

C7_Witness ==
    /\ Ended("kill")
    /\ TheReq.sandboxId # NoId
    /\ Has(TheLoc.reg0, TheReq.sessionId)
    /\ TheLoc.reg0[TheReq.sessionId].sandbox \notin Target(TheReq, TheLoc.reg0)
    /\ Succeeded(TheRet)
    /\ remote[TheLoc.reg0[TheReq.sessionId].sandbox].alive

\* C8: an id is cut at its first '-' wherever it is used: list_sandboxes
\* reports the stable id of every sandbox it lists, kill reconnects with the
\* stable id of whatever id it resolved, cutting an id twice is cutting it
\* once, and so the listed id, the id with its suffix and the id of the
\* session's handle all make kill reconnect to the same sandbox.
C8_IdsCutAtFirstDash ==
    /\ \A id \in SandboxIdInputs :
          /\ SplitFirst(SplitFirst(id)) = SplitFirst(id)
          /\ \A i \in 1..Len(SplitFirst(id)) : SplitFirst(id)[i] # "-"
    /\ (Ended("list_sandboxes") /\ Carries("sandboxes"))
         => \A k \in DOMAIN TheRet.json.sandboxes :
               TheRet.json.sandboxes[k].sandboxId = RemotePrefix(k)
    /\ (TheReq.action = "kill" /\ TheCalls # << >>)
         => /\ \A i \in 1..Len(TheCalls[1].id) : TheCalls[1].id[i] # "-"
            /\ \A k \in Target(TheReq, TheLoc.reg0) :
                  TheCalls[1].id = RemotePrefix(k)
            /\ Len(TheCalls) > 1 => TheLoc.sandbox \in Target(TheReq, TheLoc.reg0)

\* kill succeeded on the sandbox whose reported id carries a suffix, given
\* that id as it is
C8_Witness ==
    /\ Ended("kill")
    /\ Succeeded(TheRet)
    /\ TheReq.sandboxId = RemoteId(TheLoc.sandbox)
    /\ TheReq.sandboxId # RemotePrefix(TheLoc.sandbox)

\* C9 (as the code has it): a successful create returns success true, the
\* sessionId, the id of the new sandbox exactly as the service reported it
\* (suffix included; its part before the first '-' is the form that
\* list_sandboxes reports, and kill accepts both), and the trimmed output of
\* the whoami and pwd probes as currentUser and currentDirectory.
C9_CreateReportsRawId ==
    (Ended("create") /\ Succeeded(TheRet))
      => /\ TheRet.json.sessionId = TheReq.sessionId
         /\ TheRet.json.sandboxId = RemoteId(TheLoc.sandbox)
         /\ SplitFirst(TheRet.json.sandboxId) = RemotePrefix(TheLoc.sandbox)
         /\ TheRet.json.currentUser = <<"u">>
         /\ TheRet.json.currentDirectory = <<"/", "h">>
         /\ Len(TheCalls) = 3
         /\ TheCalls[2] = RemoteCall("run whoami", RemoteId(TheLoc.sandbox), 0)
         /\ TheCalls[3] = RemoteCall("run pwd", RemoteId(TheLoc.sandbox), 0)
         /\ Has(sandboxes, TheReq.sessionId)
         /\ sandboxes[TheReq.sessionId].sandbox = TheLoc.sandbox

C9_Witness ==
    /\ Ended("create")
    /\ Succeeded(TheRet)
    /\ RemoteId(TheLoc.sandbox) # RemotePrefix(TheLoc.sandbox)

\* C9 as stated: the sandboxId a successful create returns is the id reduced
\* to its prefix, the form list_sandboxes reports.
C9_CreateReportsPrefix ==
    (Ended("create") /\ Succeeded(TheRet))
      => TheRet.json.sandboxId = RemotePrefix(TheLoc.sandbox)

\* C10 (as the code has it): a set_timeout that succeeds leaves the sandbox
\* with the deadline (time of that call) + max(b, 1) * 60000 ms, b the
\* timeout of that call: the deadline in force before, and the timeout of an
\* earlier set_timeout, play no part.
C10_TimeoutReplacesClamped ==
    (Ended("set_timeout") /\ Succeeded(TheRet) /\ TheReq.timeout # None)
      => LET b == TheReq.timeout[1] IN
         remote[TheLoc.sandbox].deadline =
             TheLoc.t0 + (IF b < 1 THEN 1 ELSE b) * 60000

C10_Witness ==
    /\ Ended("set_timeout")
    /\ Succeeded(TheRet)
    /\ TheLoc.prev.action = "set_timeout"
    /\ TheLoc.prev.timeout = Some(2)
    /\ TheReq.timeout = Some(-1)
    /\ TheLoc.t0 > 0

\* C10 as stated: the deadline is (time of the call) + b * 60000 ms.
C10_TimeoutReplaces ==
    (Ended("set_timeout") /\ Succeeded(TheRet) /\ TheReq.timeout # None)
      => remote[TheLoc.sandbox].deadline = TheLoc.t0 + TheReq.timeout[1] * 60000

\* the background command with id c, as the service has it
Command(c) == CHOOSE j \in 1..Len(cmds) : CmdNames[j] = c

\* C11: a command started in the background gets an id that no command of
\* the session had before, the response carries that id and the session's
\* command map records it; kill_command reaches the service only for an id
\* the map holds, whose command was never killed; when it succeeds the id is
\* gone from the map, and the same kill_command once more fails with an error
\* envelope (no such command) without a remote call.
C11_CommandKilledOnce ==
    /\ (pc[MainProc] = "done" /\ TheReq.action \in {"shell", "command_run"}
          /\ Carries("commandId"))
         => LET c == TheRet.json.commandId
                s == TheReq.sessionId
            IN /\ Succeeded(TheRet)
               /\ c \notin TheLoc.reg0[s].commands
               /\ \A j \in 1..(Len(cmds) - 1) : CmdNames[j] # c
               /\ cmds[Command(c)].sandbox = TheLoc.sandbox
               /\ Has(sandboxes, s) /\ sandboxes[s].commands = TheLoc.reg0[s].commands \cup {c}
    /\ (TheReq.action = "kill_command" /\ TheCalls # << >>)
         => /\ TheReq.commandId \in TheLoc.reg0[TheReq.sessionId].commands
            /\ pc[MainProc] = "op" => cmds[Command(TheReq.commandId)].running
    /\ (Ended("kill_command") /\ Succeeded(TheRet))
         => /\ TheReq.commandId \notin sandboxes[TheReq.sessionId].commands
            /\ ~cmds[Command(TheReq.commandId)].running
    /\ (Ended("kill_command") /\ TheLoc.prev.action = "kill_command")
         => /\ TheCalls = << >>
            /\ Carries("error") /\ TheRet.json.error = "No background command found"
            /\ Carries("success") /\ ~TheRet.json.success
            /\ sandboxes = TheLoc.reg0

\* the second of two commands of a session was killed, and killed again
C11_Witness ==
    /\ Ended("kill_command")
    /\ TheLoc.prev.action = "kill_command"
    /\ TheLoc.prev.commandId = TheReq.commandId
    /\ Len(cmds) = 2
    /\ cmds[1].sandbox = cmds[2].sandbox
    /\ TheReq.commandId = CmdNames[2]
    /\ Carries("error")


\* the hidden variables of the process, by the name the sandbox sees, and
\* the variables the caller passed
HiddenNames == {n \in {Tail(key) : key \in DOMAIN penv} :
                   EnvPrefix \o n \in DOMAIN penv}
CallerEnvs == IF TheReq.envs = None THEN EmptyMap ELSE TheReq.envs[1]
\* the option under which the first remote call of the action in flight
\* carries the environment
EnvOption == IF TheReq.action = "create" THEN "env" ELSE "envs"
\* the first remote call of an action that creates a sandbox or runs a
\* command has been made
EnvCallMade ==
    /\ TheReq.action \in RunsCommand \cup {"create"}
    /\ TheCalls # <<>>
    /\ TheCalls[1].op \in {"Sandbox.create", "run", "run background"}

\* C12: the environment handed over on a create or a command run has
\* exactly the names of the hidden variables (without their marker) and of
\* the caller's envs; a name in both carries the caller's value, any other
\* name the value of its only source; a process variable without the
\* marker is never handed over, and no environment is handed over only when
\* there is no hidden variable and the caller passed no envs.
C12_CallerEnvsWin ==
    EnvCallMade =>
        IF EnvOption \in DOMAIN TheCalls[1]
        THEN LET env == TheCalls[1][EnvOption] IN
             /\ DOMAIN env = HiddenNames \cup DOMAIN CallerEnvs
             /\ \A n \in DOMAIN env :
                    env[n] = IF n \in DOMAIN CallerEnvs THEN CallerEnvs[n]
                             ELSE penv[EnvPrefix \o n]
        ELSE HiddenNames = {} /\ TheReq.envs = None

\* a command runs with a name that is hidden and passed by the caller, and
\* with a name that is only hidden
C12_Witness ==
    /\ EnvCallMade
    /\ TheReq.action = "shell"
    /\ HiddenNames = {<<"KEY">>, <<"TOKEN">>}
    /\ <<"KEY">> \in DOMAIN CallerEnvs
    /\ "envs" \in DOMAIN TheCalls[1]
    /\ TheCalls[1].envs[<<"KEY">>] = "caller"
    /\ TheCalls[1].envs[<<"TOKEN">>] = "secret"

\* the keys of the responses of the actions that create a sandbox or run a
\* command
ResponseKeys ==
    {"sessionId", "sandboxId", "currentUser", "currentDirectory", "success",
     "message", "error", "output", "exitCode", "stdout", "stderr",
     "commandId", "serverHost", "logFile"}
\* the responses a call of request rq can end with, whatever the process
\* environment: they are built from the request, the ids the service
\* returned (sandbox k, command c) and the results of the remote calls
ResponsesOf(rq, k, c) ==
    {TopLevelCatch(rq.sessionId, m) :
        m \in {"AlreadyExists", "NotFound", "RemoteUnavailable"}}
      \cup
    IF rq.action = "create"
    THEN IF k \in DOMAIN remote
         THEN {Returned(WithSession(rq.sessionId, CreateResponse(rq, k, EmptyMap)))}
         ELSE {}
    ELSE IF rq.action = "start_server"
    THEN {Returned(WithSession(rq.sessionId, ServerResponse(rq, c, "host")))}
    ELSE {Returned(WithSession(rq.sessionId, OpResponse(rq, code, TRUE))) :
             code \in {0, 1}}
           \cup {Returned(WithSession(rq.sessionId,
                      [commandId |-> c, success |-> TRUE,
                       message |-> "Background command started"]))}

\* C13: no response exposes the hidden variables: the response of a call
\* that creates a sandbox or runs a command is one of the responses fixed by
\* the request and by what the remote service returned, none of which has
\* a key for the environment; two runs that differ only in the hidden
\* variables and get the same results from the service therefore answer
\* alike.
C13_HiddenEnvNotExposed ==
    (pc[MainProc] = "done" /\ TheReq.action \in RunsCommand \cup {"create"}) =>
        /\ TheRet \in ResponsesOf(TheReq, TheLoc.sandbox, TheLoc.cmd)
        /\ DOMAIN TheRet.json \subseteq ResponseKeys

\* a sandbox was created with hidden variables in its environment, and the
\* call has answered
C13_Witness ==
    /\ Ended("create")
    /\ Succeeded(TheRet)
    /\ "env" \in DOMAIN TheCalls[1]
    /\ <<"TOKEN">> \in DOMAIN TheCalls[1].env
    /\ TheCalls[1].env[<<"TOKEN">>] = "secret"

\* the record store holds a record of session s whose expiry lies ms after
\* some moment of the call that has ended
RecordOf(s, ms) ==
    {r \in records : /\ r.sessionId = s
                      /\ r.expiredAt >= TheLoc.tcall + ms
                      /\ r.expiredAt <= NowMs + ms}

\* C14: when create(s, t) has succeeded, the record store holds a record
\* with the id of the new sandbox, the sessionId s and an expiry t * 60000 ms
\* after the creation.
C14_CreatePersistsRecord ==
    (Ended("create") /\ Succeeded(TheRet)) =>
        \E r \in RecordOf(TheReq.sessionId, TheCalls[1].n) :
            r.sandboxId = TheRet.json.sandboxId

\* C15: when a kill for session s has succeeded, the record store holds no
\* record of s.
C15_KillDeletesRecord ==
    (Ended("kill") /\ Succeeded(TheRet)) =>
        \A r \in records : r.sessionId # TheReq.sessionId

\* C16: when set_timeout(s, t) has succeeded, the record of s in the store
\* expires t * 60000 ms after the call.
C16_SetTimeoutMirrorsExpiry ==
    (Ended("set_timeout") /\ Succeeded(TheRet)) =>
        RecordOf(TheReq.sessionId, TheCalls[1].n) # {}

\* the store has a record of the session of the call, for a sandbox that is
\* alive at the service
PersistedAndAlive ==
    \E r \in records : \E k \in AliveIdx :
        r.sessionId = TheReq.sessionId /\ r.sandboxId = RemoteId(k)

\* C17: an operational action for a session that the registry does not
\* know, but whose record is in the store and whose sandbox is alive at the
\* service, does not fail with NotFound, and leaves a handle of the session
\* in the registry.
C17_ReconnectsAfterRestart ==
    (/\ pc[MainProc] = "done"
     /\ TheReq.action \in Operational
     /\ ~Has(TheLoc.reg0, TheReq.sessionId)
     /\ PersistedAndAlive) =>
        /\ ~(Carries("error") /\ TheRet.json.error = "NotFound")
        /\ Has(sandboxes, TheReq.sessionId)

\* a call of one of the actions in `as` has succeeded for a session that
\* has a handle
SucceededOn(as) ==
    /\ pc[MainProc] = "done"
    /\ TheReq.action \in as
    /\ Succeeded(TheRet)
    /\ Has(sandboxes, TheReq.sessionId)

\* C19: when set_timeout or an operational action has succeeded for a
\* session, the lastAccessed of the session's handle is the time of that
\* call (so that the reaper, which evicts by lastAccessed, spares a session
\* that is operated on at intervals shorter than the threshold).
C19_SuccessRefreshesLastAccessed ==
    SucceededOn(Operational \cup {"set_timeout"}) =>
        sandboxes[TheReq.sessionId].lastAccessed = TheLoc.tcall

\* the reaper takes a step
ReaperStep == reaper' # reaper
\* the sessions whose entry a step removes from the registry
Removed == {s \in DOMAIN sandboxes : ~Has(sandboxes', s)}

\* C18: a step of the reaper that ends the kill of an entry removes that
\* entry, whether the kill resolved or was rejected, and no step of the
\* reaper removes or changes an entry that the sweep did not find inactive:
\* an entry the reaper touches is the one it is killing, found inactive when
\* the sweep met it, or is idle for longer than the threshold at the time of
\* the sweep.
C18_ReaperRemovesIdleOnly ==
    [][ReaperStep =>
          /\ reaper.pc = "kill" => ~Has(sandboxes', reaper.sid)
          /\ \A s \in DOMAIN sandboxes :
                \/ Has(sandboxes', s) /\ sandboxes'[s] = sandboxes[s]
                \/ s = reaper.sid /\ sandboxes[s].sandbox = reaper.sandbox
                \/ reaper.now - sandboxes[s].lastAccessed > InactivityMs]_vars

\* the handler in slot p has read the registry entry of its session and is
\* suspended before the write that depends on what it read: create between
\* has and set, kill between get and delete, kill_command between get and
\* commands.delete
BetweenReadAndWrite(p) ==
    \/ pc[p] \in {"create", "connect", "kill"}
    \/ pc[p] = "op" /\ req[p].action = "kill_command"
\* the entry of session s in registry m, if any
EntryOf(m, s) == IF Has(m, s) THEN <<m[s]>> ELSE << >>
\* the step leaves the entry of session s as it is
EntryKept(s) == EntryOf(sandboxes', s) = EntryOf(sandboxes, s)

\* C20: while a handler, or the reaper, is between its read of a registry
\* entry and the write that depends on it, no step of another handler or of
\* the reaper touches that entry (there is no await at which one could
\* run).
C20_NoStepBetweenReadAndWrite ==
    [][/\ \A p \in Procs :
             (BetweenReadAndWrite(p) /\ pc'[p] = pc[p] /\ req'[p] = req[p]) =>
                 EntryKept(req[p].sessionId)
       /\ (reaper.pc = "kill" /\ reaper' = reaper) => EntryKept(reaper.sid)]_vars

\* the only two requests received are creates of the same session, one per
\* slot, and both have returned success
BothCreated ==
    /\ ncalls = 2
    /\ \A p \in Procs :
          pc[p] = "done" /\ req[p].action = "create" /\ Succeeded(ret[p])
    /\ \A p, q \in Procs : req[p].sessionId = req[q].sessionId
\* the sandboxes the two creates obtained
Obtained == {loc[p].sandbox : p \in Procs}

\* C21: the existence check of create does not exclude a second create of
\* the same session: when two creates of one session, received one while
\* the other was in flight, have both returned success, each had passed
\* the check on a registry without the session, they obtained two different
\* remote sandboxes, both alive, and the registry holds the handle of only
\* one of them, the one created last.
C21_ConcurrentCreatesBothSucceed ==
    BothCreated =>
        /\ \A p \in Procs : ~Has(loc[p].reg0, req[p].sessionId)
        /\ Cardinality(Obtained) = 2
        /\ Obtained \subseteq AliveIdx
        /\ Has(sandboxes, TheReq.sessionId)
        /\ \A k \in Obtained : sandboxes[TheReq.sessionId].sandbox >= k

\* the interleaving exists: both creates have succeeded, and one of the two
\* sandboxes has no handle
C21_Witness ==
    /\ BothCreated
    /\ \E k \in Obtained :
          /\ remote[k].alive
          /\ \A s \in DOMAIN sandboxes : sandboxes[s].sandbox # k

\* timeoutMinutes as the claim has it: the caller's timeout, 60 when omitted
TimeoutMinutes(rq) == IF rq.timeout = None THEN 60 ELSE rq.timeout[1]

\* C22: the time-to-live create asks the remote service for is exactly
\* timeoutMinutes * 60000 ms, timeoutMinutes being the caller's timeout, or
\* 60 when the caller gave none.
C22_CreateTimeToLive ==
    (TheReq.action = "create" /\ TheCalls # << >>) =>
        TheCalls[1].n = TimeoutMinutes(TheReq) * 60000

\* C23: no step of a reaper sweep changes the record store: the records and
\* their expiry are after the step what they were before it, also when the
\* step evicts the registry entry of a session that has a record.
C23_ReaperLeavesStore ==
    [][ReaperStep => records' = records]_vars

\* the only request received was a create of a session that has a record
\* in the store, and a sweep has evicted the entry that create had set
C23_Witness ==
    /\ ncalls = 1
    /\ \E r \in records :
          /\ hist[r.sessionId] # "never"
          /\ ~Has(sandboxes, r.sessionId)

\* C24: whenever create has returned an error envelope, the registry is
\* what it was when the call began; no handle has been added for the
\* session.
C24_FailedCreateLeavesRegistry ==
    (Ended("create") /\ Carries("success") /\ ~TheRet.json.success) =>
        sandboxes = TheLoc.reg0

\* the sessions whose handle refers to remote sandbox k
Referring(k) == {s \in DOMAIN sandboxes : sandboxes[s].sandbox = k}

C26_ReaperSparesRefreshed ==
    [][ReaperStep =>
          \A s \in DOMAIN sandboxes \ Inactive(sandboxes, reaper.now) :
              Has(sandboxes', s) /\ sandboxes'[s] = sandboxes[s]]_vars

\* C27: a kill that attempted to terminate another sandbox than the one the
\* handle of its session refers to leaves that handle in the registry.
C27_KillOfOtherSandboxKeepsHandle ==
    (/\ Ended("kill")
     /\ TheCalls # << >>
     /\ Has(TheLoc.reg0, TheReq.sessionId)
     /\ RemotePrefix(TheLoc.reg0[TheReq.sessionId].sandbox) # TheLoc.valid) =>
        /\ Has(sandboxes, TheReq.sessionId)
        /\ sandboxes[TheReq.sessionId] = TheLoc.reg0[TheReq.sessionId]

\* the request lacks a parameter that its action requires
LacksRequired(rq) ==
    CASE rq.action = "create" -> rq.sessionId = Undef
      [] rq.action = "set_timeout" -> rq.timeout = None
      [] rq.action \in {"shell", "command_run"} -> rq.cmd = Undef
      [] rq.action = "kill_command" -> rq.commandId = Undef
      [] rq.action \in {"command_kill", "processinfo"} -> rq.pid = None
      [] rq.action \in {"read_file", "get_file_downloadurl"} -> rq.filePath = Undef
      [] rq.action = "write_file" -> rq.filePath = Undef \/ rq.fileContent = Undef
      [] rq.action \in {"install", "system_install"} -> rq.packages = Undef
      [] rq.action = "get_host" -> rq.port = None
      [] rq.action = "start_server" ->
            rq.cmd = Undef \/ rq.port = None \/ rq.logFile = Undef
      [] OTHER -> FALSE
\* the background-command entries of each session of registry m
CommandEntries(m) == [s \in DOMAIN m |-> m[s].commands]

\* C28: a request that lacks a parameter its action requires (for an action
\* on a session: a session the registry knows) ends with the
\* MissingParameter envelope, without a remote call, and with the sessions
\* and background-command entries of the registry as they were.
C28_MissingParameterRejected ==
    (/\ pc[MainProc] \notin {"idle"}
     /\ LacksRequired(TheReq)
     /\ TheReq.action = "create" \/ Has(TheLoc.reg0, TheReq.sessionId)) =>
        /\ TheCalls = << >>
        /\ pc[MainProc] = "done"
        /\ Carries("error") /\ TheRet.json.error = "MissingParameter"
        /\ CommandEntries(sandboxes) = CommandEntries(TheLoc.reg0)

\* the background-command ids that registry m holds for session s
CommandsOf(m, s) == IF Has(m, s) THEN m[s].commands ELSE {}

\* a background command exits on its own in this step
ExitStep ==
    /\ pc' = pc
    /\ \E j \in 1..Len(cmds) : cmds[j].running /\ ~cmds'[j].running

\* a command_list, processinfo or command_kill (by pid) call ends in this step
InspectStep ==
    /\ pc[MainProc] = "op" /\ pc'[MainProc] = "done"
    /\ TheReq.action \in {"command_list", "processinfo", "command_kill"}

\* C29: an id enters the background-command map of a session only in a step
\* in which the service starts a background command, and leaves it only when
\* a kill_command for that id on that session ends with success or when the
\* whole session leaves the registry; the exit of the command, command_list,
\* processinfo and command_kill (by pid) leave every map unchanged.
C29_CommandMapFrame ==
    [][/\ \A s \in Sids :
            /\ \A c \in CommandsOf(sandboxes', s) \ CommandsOf(sandboxes, s) :
                  /\ Len(cmds') = Len(cmds) + 1
                  /\ c = CmdNames[Len(cmds')]
                  /\ cmds'[Len(cmds')].running
                  /\ pc[MainProc] = "op" /\ TheReq.sessionId = s
            /\ \A c \in CommandsOf(sandboxes, s) \ CommandsOf(sandboxes', s) :
                  \/ ~Has(sandboxes', s)
                  \/ /\ pc[MainProc] = "op" /\ pc'[MainProc] = "done"
                     /\ TheReq.action = "kill_command"
                     /\ TheReq.sessionId = s /\ TheReq.commandId = c
                     /\ ret'[MainProc].kind = "returned"
                     /\ "success" \in DOMAIN ret'[MainProc].json
                     /\ ret'[MainProc].json.success = TRUE
       /\ (ExitStep \/ InspectStep) =>
            /\ DOMAIN sandboxes' = DOMAIN sandboxes
            /\ CommandEntries(sandboxes') = CommandEntries(sandboxes)]_vars

\* a background command has exited, a command_list, processinfo or
\* command_kill call on its session has ended after that, and the id of the
\* command is still in the map of the session
C29_Witness ==
    /\ pc[MainProc] = "done"
    /\ TheReq.action \in {"command_list", "processinfo", "command_kill"}
    /\ Carries("success")
    /\ \E c \in CommandsOf(sandboxes, TheReq.sessionId) :
          /\ ~cmds[Command(c)].running
          /\ remote[cmds[Command(c)].sandbox].alive

\* a shell or command_run call of the main slot ends in this step
RunReturns ==
    /\ pc[MainProc] = "op" /\ pc'[MainProc] = "done"
    /\ TheReq.action \in {"shell", "command_run"}
    /\ ret'[MainProc].kind = "returned"

\* C30: a background shell or command_run returns its command id in the step
\* in which the service starts the process, the process running and not
\* waited for; a foreground one returns a result only once its process has
\* exited, and the result carries the process's stdout, stderr and exit code
\* (and no command id).
C30_BackgroundReturnsAtStart ==
    [][RunReturns =>
         LET json == ret'[MainProc].json IN
         /\ "commandId" \in DOMAIN json =>
               /\ TheReq.background
               /\ ~TheLoc.exited
               /\ Len(cmds') = Len(cmds) + 1
               /\ json.commandId = CmdNames[Len(cmds')]
               /\ cmds'[Len(cmds')].running
         /\ (TheReq.background /\ ~("error" \in DOMAIN json /\ json.error = "RemoteUnavailable")) =>
               "commandId" \in DOMAIN json
         /\ "exitCode" \in DOMAIN json =>
               /\ ~TheReq.background
               /\ TheLoc.exited
               /\ "commandId" \notin DOMAIN json
               /\ IF TheReq.action = "shell"
                  THEN json.output = "stdout" /\ json.error = "stderr"
                  ELSE json.stdout = "stdout" /\ json.stderr = "stderr"]_vars

\* a background run has returned its command id and the process it started
\* is still running
C30_Witness ==
    /\ pc[MainProc] = "done"
    /\ TheReq.action \in {"shell", "command_run"} /\ TheReq.background
    /\ Carries("commandId")
    /\ cmds[Command(TheRet.json.commandId)].running

C32_TrackedCommandsWereReturned ==
    pc[MainProc] = "done" =>
        \A s \in Sids :
            \A c \in CommandsOf(sandboxes, s) \ CommandsOf(TheLoc.reg0, s) :
                /\ Carries("commandId") /\ TheRet.json.commandId = c
                /\ Carries("success") /\ TheRet.json.success = TRUE

\* C33: command handles belong to one session handle.  A kill_command for an
\* id that the handle of its session does not track (an id of another
\* session, or of the sandbox the session had before a kill and a new
\* create) ends with the not-found envelope and makes no remote call, so it
\* terminates nothing; and the command map of a handle that a create has
\* just stored is empty.
C33_CommandsPerSessionHandle ==
    /\ (/\ Ended("kill_command")
        /\ Has(TheLoc.reg0, TheReq.sessionId)
        /\ TheReq.commandId \notin CommandsOf(TheLoc.reg0, TheReq.sessionId)) =>
            /\ Carries("error")
            /\ TheRet.json.error = "No background command found"
            /\ TheCalls = << >>
            /\ sandboxes = getSandboxInfo(TheLoc.reg0, TheReq.sessionId)
    /\ (/\ Ended("create")
        /\ ~Has(TheLoc.reg0, TheReq.sessionId)
        /\ Has(sandboxes, TheReq.sessionId)) =>
            CommandsOf(sandboxes, TheReq.sessionId) = {}

\* a kill_command on one session named a command that runs under another
\* session, was answered not-found, and that command still runs and is
\* still tracked there
C33_Witness ==
    /\ Ended("kill_command")
    /\ Carries("error") /\ TheRet.json.error = "No background command found"
    /\ \E t \in DOMAIN sandboxes \ {TheReq.sessionId} :
          /\ TheReq.commandId \in sandboxes[t].commands
          /\ cmds[Command(TheReq.commandId)].running

\* C34: a kill_command whose remote termination fails ends with the error
\* envelope and leaves the entry of the command, and every command map, as
\* it was; and a kill_command for an id that the map of its session holds
\* reaches the service and is never answered not-found: so the failed
\* kill_command can be sent again.
C34_FailedKillCommandKeepsEntry ==
    /\ (Ended("kill_command") /\ TheCalls # << >> /\ ~Succeeded(TheRet)) =>
          /\ Carries("error") /\ TheRet.json.error = "RemoteUnavailable"
          /\ TheReq.commandId \in CommandsOf(sandboxes, TheReq.sessionId)
          /\ CommandEntries(sandboxes) = CommandEntries(TheLoc.reg0)
    /\ (/\ Ended("kill_command")
        /\ TheReq.commandId \in CommandsOf(TheLoc.reg0, TheReq.sessionId)) =>
          /\ TheCalls # << >>
          /\ Carries("error") => TheRet.json.error # "No background command found"

\* the termination of a running background command in a live sandbox was
\* refused, and the command is still tracked
C34_Witness ==
    /\ Ended("kill_command")
    /\ Carries("error") /\ TheRet.json.error = "RemoteUnavailable"
    /\ remote[TheLoc.sandbox].alive
    /\ TheReq.commandId \in CommandsOf(sandboxes, TheReq.sessionId)
    /\ cmds[Command(TheReq.commandId)].running

\* the call of the main slot has ended with the error envelope of the
\* top-level catch
ErrorEnvelope ==
    /\ pc[MainProc] = "done"
    /\ TheRet.kind = "returned"
    /\ DOMAIN TheRet.json = {"sessionId", "error", "success"}

\* C35: an operational action (or an unknown action) on a session of the
\* registry that ends with the error envelope leaves the lastAccessed of the
\* session's handle as it was when the call began.
C35_FailureKeepsLastAccessed ==
    (/\ ErrorEnvelope
     /\ TheReq.action \in Operational \cup {"unknown"}
     /\ Has(TheLoc.reg0, TheReq.sessionId)
     /\ Has(sandboxes, TheReq.sessionId)) =>
        sandboxes[TheReq.sessionId].lastAccessed =
            TheLoc.reg0[TheReq.sessionId].lastAccessed

\* the sessions that a step adds to the registry
Inserted == {s \in SessionIds : Has(sandboxes', s) /\ ~Has(sandboxes, s)}

\* C36: a step adds a session to the registry only when it is the step of a
\* create for that session whose Sandbox.create has resolved; every other
\* step (of any other action, also of one that resolved its handle before
\* the session was killed and completes after) leaves absent sessions
\* absent.
C36_OnlyCreateInserts ==
    [][\A s \in Inserted :
          \E p \in Procs :
              /\ pc[p] = "create" /\ pc'[p] # "create"
              /\ req[p].action = "create" /\ req[p].sessionId = s]_vars

\* a background shell resolved its handle, the session was killed while the
\* command was being started, the shell has returned success, and the
\* session is absent from the registry
C36_Witness ==
    \E p \in Procs :
        /\ pc[p] = "done" /\ req[p].action = "shell" /\ Succeeded(ret[p])
        /\ Has(loc[p].reg0, req[p].sessionId)
        /\ ~Has(sandboxes, req[p].sessionId)

\* a step of a help or list_sandboxes call of the main slot: the call is
\* received, or the listing it awaits settles
InformationStep ==
    /\ pc'[MainProc] # pc[MainProc]
    /\ pc'[MainProc] \in {"list", "done"}
    /\ req'[MainProc].action \in {"help", "list_sandboxes"}

C38_InstallByLanguage ==
    (/\ pc[MainProc] # "idle" /\ TheReq.action = "install"
     /\ Has(TheLoc.reg0, TheReq.sessionId)) =>
        LET lang == IF TheReq.language = Undef THEN "python" ELSE TheReq.language IN
        /\ lang = "python" =>
              /\ TheCalls # << >>
              /\ TheCalls[1].op = "run"
              /\ TheCalls[1].cmd = <<"pip install", TheReq.packages>>
        /\ lang \in {"javascript", "typescript"} =>
              /\ TheCalls # << >>
              /\ TheCalls[1].op = "run"
              /\ TheCalls[1].cmd = <<"npm install", TheReq.packages>>
        /\ lang \notin {"python", "javascript", "typescript"} =>
              /\ TheCalls = << >>
              /\ ErrorEnvelope /\ TheRet.json.error = "Unsupported language"
        /\ (pc[MainProc] = "done" /\ TheCalls # << >> /\ ~ErrorEnvelope) =>
              /\ TheLoc.exited
              /\ TheRet.json.success = (TheLoc.exitCode = 0)
              /\ TheRet.json.error = "stderr"
              /\ TheRet.json.output = "stdout"

\* an npm installation for typescript has exited with a code other than 0
\* and the response reports the failure
C38_Witness ==
    /\ Ended("install")
    /\ TheReq.language = "typescript"
    /\ TheLoc.exited /\ TheLoc.exitCode # 0
    /\ Carries("output") /\ ~TheRet.json.success
====
